---- MODULE Spec2Model ----
(***************************************************************************)
(* Span lifecycle of the "otel" Ansible callback plugin                    *)
(* (callback_plugins/otel.py).  The plugin keeps a dictionary              *)
(* active_spans keyed by level name and, on every notification of the      *)
(* engine, ends and starts OpenTelemetry spans.                            *)
(*                                                                         *)
(* The OpenTelemetry SDK objects the plugin calls are modelled by what the *)
(* SDK does: Span.end(), Span.add_event() and Span.set_status() on a span  *)
(* whose end time is set log a warning and change nothing; Span.end() on a *)
(* live span stamps the end time and hands the span to the span processor. *)
(* A handler that indexes active_spans with a missing key raises KeyError; *)
(* what it did before the raise stays done.                                *)
(***************************************************************************)
EXTENDS Integers, Sequences, FiniteSets, TLC

\* Number of notifications the engine sends in one behaviour.
MaxEvents == 6

\* Targets of the per-host notifications, and the results a failure carries
\* (result._host, result._result['msg']).
Hosts == {"h1", "h2"}
Results == { [host |-> "h1", msg |-> "connection refused"],
             [host |-> "h2", msg |-> "timeout"] }

NoHost == "-"
NoMsg == "-"

\* Keys of active_spans, shallowest first.
Keys == <<"playbook", "play", "task", "runner">>
KeySet == {"playbook", "play", "task", "runner"}

Depth(k) == CHOOSE i \in 1..4 : Keys[i] = k

VARIABLES
  active_spans,  \* self.active_spans: key -> span (index into spans)
  spans,         \* every span object the tracer created, in creation order
  exported,      \* spans handed to the span processor by Span.end()
  banners,       \* trace ids shown with self._display.banner
  clock,         \* logical time of the SDK (one tick per start and per end)
  raised,        \* exception the last handler raised, "none" if it returned
  hist,          \* notifications received so far
  phase,         \* position of hist in the level ordering Run > Stage > Step > Execution
  ordered,       \* hist respects the level ordering
  pre            \* spans, active_spans, exported, banners at entry of the last handler

vars == <<active_spans, spans, exported, banners, clock, raised, hist, phase, ordered, pre>>

----------------------------------------------------------------------------
\* Descriptors and attribute extraction

EmptyDict == [k \in {} |-> ""]

\* str(val) of an attribute value
Str(val) == IF val.t = "int" THEN ToString(val.v) ELSE val.v

\* span.set_attribute(key, value) on the attribute mapping of a span
set_attribute(attrs, key, value) ==
  [k \in (DOMAIN attrs) \cup {key} |-> IF k = key THEN value ELSE attrs[k]]

RECURSIVE SetAll(_, _, _, _)
\* for key, val in d.items(): span.set_attribute(prefix + key, val)
SetAll(attrs, prefix, d, todo) ==
  IF todo = {} THEN attrs
  ELSE LET k == CHOOSE x \in todo : TRUE
       IN SetAll(set_attribute(attrs, prefix \o k, d[k]), prefix, d, todo \ {k})

RECURSIVE FlattenFirstWins(_)
\* The flattening with the first mapping that holds a key winning.
FlattenFirstWins(env) ==
  IF env = <<>> THEN EmptyDict
  ELSE LET init == FlattenFirstWins(SubSeq(env, 1, Len(env) - 1))
           last == env[Len(env)]
       IN [k \in (DOMAIN init) \cup (DOMAIN last) |->
             IF k \in DOMAIN init THEN init[k] ELSE last[k]]

RECURSIVE Flatten(_)
\* {k: v for d in environment for k, v in d.items()}: later mappings win
Flatten(env) ==
  IF env = <<>> THEN EmptyDict
  ELSE LET init == Flatten(SubSeq(env, 1, Len(env) - 1))
           last == env[Len(env)]
       IN [k \in (DOMAIN init) \cup (DOMAIN last) |->
             IF k \in DOMAIN last THEN last[k] ELSE init[k]]

set_play_attrs(play) ==
  LET a1 == set_attribute(EmptyDict, "play.hosts", Str(play.hosts))
      a2 == SetAll(a1, "environment.", play.environment, DOMAIN play.environment)
      sv == [k \in DOMAIN play.vars |-> Str(play.vars[k])]
  IN SetAll(a2, "vars.", sv, DOMAIN sv)

\* set_task_attrs without the loop over task.args.
set_task_attrs_without_args(task) ==
  LET a1 == set_attribute(EmptyDict, "task.action", task.action)
      environment == Flatten(task.environment)
  IN SetAll(a1, "environment.", environment, DOMAIN environment)

set_task_attrs(task) ==
  LET a1 == set_attribute(EmptyDict, "task.action", task.action)
      sa == [k \in DOMAIN task.args |-> Str(task.args[k])]
      a2 == SetAll(a1, "task.args.", sa, DOMAIN sa)
      environment == Flatten(task.environment)
  IN SetAll(a2, "environment.", environment, DOMAIN environment)

set_runner_attrs == EmptyDict

\* The play and the task the engine announces.
ThePlay == [hosts |-> [t |-> "str", v |-> "all"],
            environment |-> EmptyDict,
            vars |-> [k \in {"retries"} |-> [t |-> "int", v |-> 3]]]

TheTask == [action |-> "copy",
            args |-> [k \in {"dest"} |-> [t |-> "str", v |-> "/tmp/a"]],
            environment |-> << [k \in {"FOO"} |-> "bar"] >>]

----------------------------------------------------------------------------
\* The tracer and the span objects

\* State of the SDK a handler works on.
Sdk == [spans |-> spans, exported |-> exported, clock |-> clock]

IsEnded(sp) == sp.end_time # 0

\* Span.end() as the SDK would behave without its guard against a second end.
span_end_unguarded(t, id) ==
  [t EXCEPT !.spans[id].end_time = t.clock + 1,
            !.spans[id].end_calls = @ + 1,
            !.spans[id].closed_by = Len(hist) + 1,
            !.exported = Append(@, id),
            !.clock = @ + 1]

\* span.end(): stamps the end time and passes the span to the span processor;
\* on a span that has ended it changes nothing (end_calls counts the calls).
span_end(t, id) ==
  IF IsEnded(t.spans[id])
  THEN [t EXCEPT !.spans[id].end_calls = @ + 1]
  ELSE [t EXCEPT !.spans[id].end_time = t.clock + 1,
                 !.spans[id].end_calls = @ + 1,
                 !.spans[id].closed_by = Len(hist) + 1,
                 !.exported = Append(@, id),
                 !.clock = @ + 1]

\* if key in self.active_spans: self.active_spans[key].end()
EndIfActive(t, key) ==
  IF key \in DOMAIN active_spans THEN span_end(t, active_spans[key]) ELSE t

\* self.tracer.start_span(name, context=trace.set_span_in_context(parent)):
\* parent = 0 is the empty context (a root span with a fresh trace id); any
\* other parent, ended or not, passes its trace id on.
start_span(t, parent, key, host, attrs) ==
  LET id == Len(t.spans) + 1
      sp == [key |-> key,
             parent |-> parent,
             trace_id |-> IF parent = 0 THEN id ELSE t.spans[parent].trace_id,
             host |-> host,
             attributes |-> attrs,
             status |-> "UNSET",
             events |-> <<>>,
             start_time |-> t.clock + 1,
             end_time |-> 0,
             end_calls |-> 0,
             opened_by |-> Len(hist) + 1,
             closed_by |-> 0,
             parent_open |-> IF parent = 0 THEN TRUE ELSE ~IsEnded(t.spans[parent])]
  IN [t EXCEPT !.spans = Append(@, sp), !.clock = @ + 1]

\* add_event as it would behave without the SDK's test of the end time.
add_event_unguarded(t, id, msg) ==
  [t EXCEPT !.spans[id].events = Append(@, [msg |-> msg, at |-> t.clock])]

\* span.add_event(name="exception", attributes={"exception.message": msg})
add_event(t, id, msg) ==
  IF IsEnded(t.spans[id]) THEN t
  ELSE [t EXCEPT !.spans[id].events = Append(@, [msg |-> msg, at |-> t.clock])]

\* span.set_status(Status(status_code=StatusCode.ERROR))
set_status(t, id) ==
  IF IsEnded(t.spans[id]) THEN t
  ELSE [t EXCEPT !.spans[id].status = "ERROR"]

\* self.active_spans[key] = span
Assign(key, id) ==
  [k \in (DOMAIN active_spans) \cup {key} |-> IF k = key THEN id ELSE active_spans[k]]

----------------------------------------------------------------------------
\* Level ordering of the notification stream (Run -> Stage* -> Step* -> Execution*)

Respects(type) ==
  CASE type = "run_start"  -> phase = "Idle"
    [] type = "play_start" -> phase \in {"Run", "Stage", "Step", "Execution"}
    [] type = "task_start" -> phase \in {"Stage", "Step", "Execution"}
    [] type = "runner_start" -> phase \in {"Step", "Execution"}
    [] type = "runner_failed" -> phase = "Execution"
    [] type = "stats" -> phase \in {"Run", "Stage", "Step", "Execution"}

After(type) ==
  CASE type = "run_start"  -> "Run"
    [] type = "play_start" -> "Stage"
    [] type = "task_start" -> "Step"
    [] type = "runner_start" -> "Execution"
    [] type = "runner_failed" -> "Step"
    [] type = "stats" -> "Done"

\* The handler for notification n returns (exc = "none") or raises exc, leaving
\* the SDK in state t and active_spans as act; shown is what it displayed.
Finish(t, act, exc, shown, n) ==
  /\ Len(hist) < MaxEvents
  /\ spans' = t.spans
  /\ exported' = t.exported
  /\ clock' = t.clock
  /\ active_spans' = act
  /\ raised' = exc
  /\ banners' = banners \o shown
  /\ hist' = Append(hist, n)
  /\ ordered' = (ordered /\ Respects(n.type))
  /\ phase' = After(n.type)
  /\ pre' = [spans |-> spans, active_spans |-> active_spans,
             exported |-> exported, banners |-> banners]

Note(type, host, msg) == [type |-> type, host |-> host, msg |-> msg]

----------------------------------------------------------------------------
\* The handlers

\* What each handler ends before it starts its span, in the order of the code.
ends_on_play_start_shallowest_first(t) ==
  EndIfActive(EndIfActive(EndIfActive(t, "play"), "task"), "runner")

ends_on_play_start(t) ==
  EndIfActive(EndIfActive(EndIfActive(t, "runner"), "task"), "play")

ends_on_task_start(t) ==
  EndIfActive(EndIfActive(t, "runner"), "task")

ends_on_runner_start_nothing(t) == t

ends_on_runner_start_and_task(t) ==
  EndIfActive(EndIfActive(t, "runner"), "task")

ends_on_runner_start(t) ==
  EndIfActive(t, "runner")

ends_on_stats_but_playbook(t) ==
  EndIfActive(EndIfActive(EndIfActive(t, "runner"), "task"), "play")

ends_on_stats(t) ==
  EndIfActive(EndIfActive(EndIfActive(EndIfActive(t, "runner"), "task"), "play"),
              "playbook")

\* The span each handler passes as the parent of the span it starts.
parent_on_play_start == active_spans["playbook"]

parent_on_task_start == active_spans["play"]

parent_on_runner_start_previous_runner ==
  IF "runner" \in DOMAIN active_spans
  THEN active_spans["runner"]
  ELSE active_spans["task"]

parent_on_runner_start == active_spans["task"]

v2_playbook_on_start ==
  LET t == start_span(Sdk, 0, "playbook", NoHost, EmptyDict)
  IN Finish(t, Assign("playbook", Len(t.spans)), "none", <<>>,
            Note("run_start", NoHost, NoMsg))

v2_playbook_on_play_start ==
  LET t1 == ends_on_play_start(Sdk)
      n == Note("play_start", NoHost, NoMsg)
  IN IF "playbook" \notin DOMAIN active_spans
     THEN Finish(t1, active_spans, "KeyError", <<>>, n)
     ELSE LET t2 == start_span(t1, parent_on_play_start, "play", NoHost,
                               set_play_attrs(ThePlay))
          IN Finish(t2, Assign("play", Len(t2.spans)), "none", <<>>, n)

v2_playbook_on_task_start(task) ==
  LET t1 == ends_on_task_start(Sdk)
      n == [type |-> "task_start", host |-> NoHost, msg |-> NoMsg, task |-> task]
  IN IF "play" \notin DOMAIN active_spans
     THEN Finish(t1, active_spans, "KeyError", <<>>, n)
     ELSE LET t2 == start_span(t1, parent_on_task_start, "task", NoHost,
                               set_task_attrs(task))
          IN Finish(t2, Assign("task", Len(t2.spans)), "none", <<>>, n)

v2_runner_on_start(host) ==
  LET t1 == ends_on_runner_start(Sdk)
      n == Note("runner_start", host, NoMsg)
  IN IF "task" \notin DOMAIN active_spans
     THEN Finish(t1, active_spans, "KeyError", <<>>, n)
     ELSE LET t2 == start_span(t1, parent_on_runner_start, "runner", host,
                               set_runner_attrs)
          IN Finish(t2, Assign("runner", Len(t2.spans)), "none", <<>>, n)

\* The handler with the span ended before it is annotated.
v2_runner_on_failed_end_first(result) ==
  LET n == Note("runner_failed", result.host, result.msg)
  IN IF "runner" \notin DOMAIN active_spans
     THEN Finish(Sdk, active_spans, "KeyError", <<>>, n)
     ELSE LET span == active_spans["runner"]
              t1 == EndIfActive(Sdk, "runner")
              t2 == add_event(t1, span, result.msg)
              t3 == set_status(t2, span)
          IN Finish(t3, active_spans, "none", <<>>, n)

v2_runner_on_failed(result) ==
  LET n == Note("runner_failed", result.host, result.msg)
  IN IF "runner" \notin DOMAIN active_spans
     THEN Finish(Sdk, active_spans, "KeyError", <<>>, n)
     ELSE LET span == active_spans["runner"]
              t1 == add_event(Sdk, span, result.msg)
              t2 == set_status(t1, span)
              t3 == EndIfActive(t2, "runner")
          IN Finish(t3, active_spans, "none", <<>>, n)

v2_playbook_on_stats ==
  LET t1 == ends_on_stats(Sdk)
      n == Note("stats", NoHost, NoMsg)
  IN IF "playbook" \notin DOMAIN active_spans
     THEN Finish(t1, active_spans, "KeyError", <<>>, n)
     ELSE Finish(t1, active_spans, "none",
                 << t1.spans[active_spans["playbook"]].trace_id >>, n)

----------------------------------------------------------------------------

Init ==
  /\ active_spans = [k \in {} |-> 0]
  /\ spans = <<>>
  /\ exported = <<>>
  /\ banners = <<>>
  /\ clock = 0
  /\ raised = "none"
  /\ hist = <<>>
  /\ phase = "Idle"
  /\ ordered = TRUE
  /\ pre = [spans |-> <<>>, active_spans |-> [k \in {} |-> 0],
            exported |-> <<>>, banners |-> <<>>]

Next ==
  \/ v2_playbook_on_start
  \/ v2_playbook_on_play_start
  \/ v2_playbook_on_task_start(TheTask)
  \/ \E host \in Hosts : v2_runner_on_start(host)
  \/ \E result \in Results : v2_runner_on_failed(result)
  \/ v2_playbook_on_stats

Spec == Init /\ [][Next]_vars

----------------------------------------------------------------------------
\* The step descriptors of a run: one step per behaviour, its action, its
\* arguments and its environment (a list of mappings) drawn from small sets.

MaxEnvLen == 2

Actions == {"copy"}
ArgKeys == {"dest"}
ArgVals == { [t |-> "str", v |-> "/tmp/a"], [t |-> "int", v |-> 644] }
EnvKeys == {"FOO", "BAR"}
EnvVals == {"bar", "baz"}

Mappings(keys, vals) == UNION { [S -> vals] : S \in SUBSET keys }

Lists(elems, n) == UNION { [1..m -> elems] : m \in 0..n }

Tasks == [action : Actions,
          args : Mappings(ArgKeys, ArgVals),
          environment : Lists(Mappings(EnvKeys, EnvVals), MaxEnvLen)]

NoTaskYet == \A i \in 1..Len(hist) : hist[i].type # "task_start"

NextTasks ==
  \/ Respects("run_start") /\ v2_playbook_on_start
  \/ Respects("play_start") /\ v2_playbook_on_play_start
  \/ \E task \in Tasks :
       Respects("task_start") /\ NoTaskYet /\ v2_playbook_on_task_start(task)

SpecTasks == Init /\ [][NextTasks]_vars

----------------------------------------------------------------------------
\* Vocabulary of the properties

Last == hist[Len(hist)]

IsLast(type) == hist # <<>> /\ Last.type = type

\* Two notifications in a row, the last of type type2 right after one of type1.
IsLastTwo(type1, type2) ==
  /\ Len(hist) >= 2
  /\ hist[Len(hist) - 1].type = type1
  /\ hist[Len(hist)].type = type2

StartTypes == {"play_start", "task_start", "runner_start"}

KeyOf(type) ==
  CASE type = "run_start" -> "playbook"
    [] type = "play_start" -> "play"
    [] type = "task_start" -> "task"
    [] type = "runner_start" -> "runner"

SpanIds == 1..Len(spans)
OldIds == 1..Len(pre.spans)
NewIds == SpanIds \ OldIds

\* The span at key is live in state s (s is pre or the current state).
OpenAt(s, key) ==
  /\ key \in DOMAIN s.active_spans
  /\ ~IsEnded(s.spans[s.active_spans[key]])

Now == [spans |-> spans, active_spans |-> active_spans,
        exported |-> exported, banners |-> banners]

\* The last handler returned and created exactly one span, at key, under parent.
Created(key, parent) ==
  /\ raised = "none"
  /\ Len(spans) = Len(pre.spans) + 1
  /\ spans[Len(spans)].key = key
  /\ spans[Len(spans)].parent = parent
  /\ ~IsEnded(spans[Len(spans)])
  /\ active_spans[key] = Len(spans)

\* The live span nearest above key in state s, 0 (the root context) if none.
NearestOpenAbove(s, key) ==
  LET up == {i \in 1..(Depth(key) - 1) : OpenAt(s, Keys[i])}
  IN IF up = {} THEN 0
     ELSE s.active_spans[Keys[CHOOSE i \in up : \A j \in up : j <= i]]

\* Nothing of what a span reports (status, events, end time) differs from pre,
\* and no span was created or exported.
NothingTouched ==
  /\ Len(spans) = Len(pre.spans)
  /\ exported = pre.exported
  /\ \A i \in SpanIds :
       /\ spans[i].status = pre.spans[i].status
       /\ spans[i].events = pre.spans[i].events
       /\ spans[i].end_time = pre.spans[i].end_time

NoDuplicates(q) == \A i, j \in 1..Len(q) : q[i] = q[j] => i = j

----------------------------------------------------------------------------
\* C1: for every notification sequence that respects the level ordering, when
\* onRunEnd has returned every span that was opened is closed, and end() has
\* been applied to each span exactly once.
C1_EveryOpenedSpanEndedExactlyOnce ==
  (ordered /\ phase = "Done") =>
    \A i \in SpanIds : IsEnded(spans[i]) /\ spans[i].end_calls = 1

\* C2: in a properly nested notification sequence the Run span is a root, and
\* every other span's parent is the span one level up that was live when the
\* span was created: Stage under Run, Step under Stage, Execution under Step.
C2_ParentLinkage ==
  ordered =>
    \A i \in SpanIds :
      LET s == spans[i]
      IN IF s.key = "playbook" THEN s.parent = 0
         ELSE /\ s.parent \in 1..(i - 1)
              /\ spans[s.parent].key = Keys[Depth(s.key) - 1]
              /\ s.parent_open
              /\ spans[s.parent].start_time < s.start_time
              /\ IsEnded(spans[s.parent]) => s.start_time < spans[s.parent].end_time

\* Two executions of one step for different targets, both children of that step.
C2_Witness ==
  /\ ordered
  /\ \E i, j \in SpanIds :
       /\ spans[i].key = "runner" /\ spans[j].key = "runner"
       /\ spans[i].host # spans[j].host
       /\ spans[i].parent = spans[j].parent
       /\ spans[spans[i].parent].key = "task"

\* C3: a start notification for level L (stage, step, execution) closes every
\* span that was live at level L or deeper, the deeper one first, before the
\* new span starts; when the new span starts none of them is live.
C3_ClosingOrderOnStart ==
  (hist # <<>> /\ Last.type \in StartTypes) =>
    LET L == Depth(KeyOf(Last.type))
        atOrBelow == {j \in OldIds : Depth(pre.spans[j].key) >= L}
        wasOpen == {j \in atOrBelow : ~IsEnded(pre.spans[j])}
    IN /\ \A j \in wasOpen : IsEnded(spans[j]) /\ spans[j].closed_by = Len(hist)
       /\ \A j, k \in wasOpen :
            Depth(spans[j].key) > Depth(spans[k].key)
              => spans[j].end_time < spans[k].end_time
       /\ \A i \in NewIds : \A j \in atOrBelow :
            IsEnded(spans[j]) /\ spans[j].end_time < spans[i].start_time

\* A stage start that found a stage, a step and an execution live.
C3_Witness ==
  /\ IsLast("play_start")
  /\ OpenAt(pre, "play") /\ OpenAt(pre, "task") /\ OpenAt(pre, "runner")
  /\ NewIds # {}

\* C4: onExecutionFailed with message m, arriving while an Execution span is
\* live, marks that span Error, records an event carrying m before the span's
\* end, and ends the span; an onExecutionStart right after it creates another
\* Execution span, live, with status Unset and no event.
C4_ErrorPath ==
  /\ (IsLast("runner_failed") /\ OpenAt(pre, "runner")) =>
       LET id == pre.active_spans["runner"]
           ev == spans[id].events
       IN /\ raised = "none"
          /\ spans[id].status = "ERROR"
          /\ Len(ev) = Len(pre.spans[id].events) + 1
          /\ ev[Len(ev)].msg = Last.msg
          /\ IsEnded(spans[id])
          /\ ev[Len(ev)].at < spans[id].end_time
          /\ Len(exported) = Len(pre.exported) + 1
          /\ exported[Len(exported)] = id
  /\ (IsLastTwo("runner_failed", "runner_start")
        /\ "runner" \in DOMAIN pre.active_spans
        /\ pre.spans[pre.active_spans["runner"]].status = "ERROR") =>
       /\ Created("runner", pre.active_spans["task"])
       /\ active_spans["runner"] # pre.active_spans["runner"]
       /\ spans[Len(spans)].status = "UNSET"
       /\ spans[Len(spans)].events = <<>>
       /\ spans[Len(spans)].host = Last.host

\* A failure was recorded on the execution of h1, then the execution of h2 started.
C4_Witness ==
  /\ IsLastTwo("runner_failed", "runner_start")
  /\ Last.host = "h2"
  /\ \E i \in OldIds :
       /\ spans[i].key = "runner" /\ spans[i].host = "h1"
       /\ spans[i].status = "ERROR"
       /\ Len(spans[i].events) = 1
       /\ spans[i].events[1].msg = hist[Len(hist) - 1].msg
       /\ IsEnded(spans[i])
  /\ spans[Len(spans)].status = "UNSET"

C6_NoHandlerRaises == raised = "none"

\* C7: a start whose enclosing level was never opened still succeeds, with the
\* nearest live shallower span as parent (the Run span for a step start that
\* comes before any stage start), or the root context if there is none.
C7_SparseSequenceTolerated ==
  (hist # <<>> /\ Last.type \in StartTypes
     /\ Keys[Depth(KeyOf(Last.type)) - 1] \notin DOMAIN pre.active_spans) =>
    Created(KeyOf(Last.type), NearestOpenAbove(pre, KeyOf(Last.type)))

\* C8: onExecutionFailed with no live Execution span returns normally and
\* changes no span: no status, no event, no end.
C8_FailureWithoutExecutionDropped ==
  (IsLast("runner_failed") /\ ~OpenAt(pre, "runner")) =>
    raised = "none" /\ NothingTouched

\* C9: onRunStart, one stage start, one step start, n >= 1 execution starts
\* for distinct targets and onRunEnd export exactly n + 3 spans, each span
\* once, and show the banner once.
EndToEnd ==
  /\ Len(hist) >= 5
  /\ hist[1].type = "run_start"
  /\ hist[2].type = "play_start"
  /\ hist[3].type = "task_start"
  /\ \A i \in 4..(Len(hist) - 1) : hist[i].type = "runner_start"
  /\ \A i, j \in 4..(Len(hist) - 1) : hist[i].host = hist[j].host => i = j
  /\ hist[Len(hist)].type = "stats"

C9_EndToEndCount ==
  EndToEnd =>
    LET n == Len(hist) - 4
    IN /\ n >= 1
       /\ Len(spans) = n + 3
       /\ Len(exported) = n + 3
       /\ NoDuplicates(exported)
       /\ {exported[i] : i \in 1..Len(exported)} = SpanIds
       /\ Len(banners) = 1

\* The run with two executions.
C9_Witness == EndToEnd /\ Len(hist) = 6 /\ Len(exported) = 5

\* C10: the banner is shown by onRunEnd only, it carries the trace id of the
\* Run span the last onRunStart created, the Run span in use and its trace id
\* change only on onRunStart, and when the banner is shown the Run span has
\* ended, as has every other span of a controller whose runs were each
\* started once.
RunSpan(s) ==
  IF "playbook" \in DOMAIN s.active_spans THEN s.active_spans["playbook"] ELSE 0

\* Every onRunStart but the first came after the onRunEnd of the run before.
RunsStartedOnce ==
  \A i, j \in 1..Len(hist) :
    (i < j /\ hist[i].type = "run_start" /\ hist[j].type = "run_start") =>
      \E k \in (i + 1)..(j - 1) : hist[k].type = "stats"

LastRunStart == CHOOSE i \in 1..Len(hist) :
  /\ hist[i].type = "run_start"
  /\ \A j \in (i + 1)..Len(hist) : hist[j].type # "run_start"

----------------------------------------------------------------------------
\* Vocabulary of the attribute properties

\* The last notification was a step start that returned with its span created.
StepStarted == IsLast("task_start") /\ raised = "none"

StepAttributes == spans[Len(spans)].attributes

EnvKeysOf(env) == UNION {DOMAIN env[i] : i \in 1..Len(env)}

\* The value of key k in the last mapping of env that holds k.
LastHolding(env, k) ==
  LET i == CHOOSE x \in 1..Len(env) :
             /\ k \in DOMAIN env[x]
             /\ \A y \in (x + 1)..Len(env) : k \notin DOMAIN env[y]
  IN env[i][k]

\* The attributes of the Step span are the action under actionKey, one
\* attribute per argument under argPrefix and one per environment key under
\* envPrefix, and nothing else.
StepAttrsAre(actionKey, argPrefix, envPrefix) ==
  LET task == Last.task
      a == StepAttributes
  IN /\ DOMAIN a = {actionKey}
                     \cup {argPrefix \o k : k \in DOMAIN task.args}
                     \cup {envPrefix \o k : k \in EnvKeysOf(task.environment)}
     /\ a[actionKey] = task.action
     /\ \A k \in DOMAIN task.args : a[argPrefix \o k] = Str(task.args[k])
     /\ \A k \in EnvKeysOf(task.environment) :
          a[envPrefix \o k] = LastHolding(task.environment, k)

\* C11 as stated: the Step span of a step with action a, arguments args and
\* environment env carries exactly "step.action", "args.<k>" and "env.<k>";
\* copy / {dest: "/tmp/a"} / [{FOO: "bar"}] gives
\* {"step.action": "copy", "args.dest": "/tmp/a", "env.FOO": "bar"}.
C11_StepAttrsUnderSpecKeys ==
  StepStarted =>
    /\ StepAttrsAre("step.action", "args.", "env.")
    /\ Last.task = TheTask =>
         StepAttributes = ("step.action" :> "copy") @@ ("args.dest" :> "/tmp/a")
                            @@ ("env.FOO" :> "bar")

\* C11 amended: the same attributes under the keys "task.action",
\* "task.args.<k>" (string form of the argument) and "environment.<k>";
\* copy / {dest: "/tmp/a"} / [{FOO: "bar"}] gives
\* {"task.action": "copy", "task.args.dest": "/tmp/a", "environment.FOO": "bar"}.
C11_StepAttrsUnderCodeKeys ==
  StepStarted =>
    /\ StepAttrsAre("task.action", "task.args.", "environment.")
    /\ Last.task = TheTask =>
         StepAttributes = ("task.action" :> "copy") @@ ("task.args.dest" :> "/tmp/a")
                            @@ ("environment.FOO" :> "bar")

\* The step copy / {dest: "/tmp/a"} / [{FOO: "bar"}] was started.
C11_Witness ==
  /\ StepStarted
  /\ Last.task = TheTask
  /\ Cardinality(DOMAIN StepAttributes) = 3
  /\ StepAttributes["task.args.dest"] = "/tmp/a"

\* C18: every key of every mapping of a step's environment list yields exactly
\* one attribute, whose value is the one of the last mapping holding the key.
C18_EnvironmentLastWins ==
  StepStarted =>
    LET task == Last.task
        a == StepAttributes
        others == {"task.action"} \cup {"task.args." \o k : k \in DOMAIN task.args}
    IN /\ \A k \in EnvKeysOf(task.environment) :
            /\ ("environment." \o k) \in DOMAIN a
            /\ a["environment." \o k] = LastHolding(task.environment, k)
       /\ Cardinality((DOMAIN a) \ others) = Cardinality(EnvKeysOf(task.environment))

\* A step whose environment sets FOO twice, to different values.
C18_Witness ==
  /\ StepStarted
  /\ Len(Last.task.environment) = 2
  /\ "FOO" \in DOMAIN Last.task.environment[1]
  /\ "FOO" \in DOMAIN Last.task.environment[2]
  /\ Last.task.environment[1]["FOO"] = "bar"
  /\ Last.task.environment[2]["FOO"] = "baz"
  /\ "BAR" \in DOMAIN Last.task.environment[1]
  /\ StepAttributes["environment.FOO"] = "baz"
  /\ StepAttributes["environment.BAR"] \in EnvVals

----------------------------------------------------------------------------
\* Vocabulary of the table properties

OpenIds == {i \in SpanIds : ~IsEnded(spans[i])}

OpenAtKey(key) == {i \in OpenIds : spans[i].key = key}

\* What a span reports is the same as at entry of the last handler.
SameSpan(i) ==
  /\ spans[i].status = pre.spans[i].status
  /\ spans[i].events = pre.spans[i].events
  /\ spans[i].attributes = pre.spans[i].attributes
  /\ spans[i].end_time = pre.spans[i].end_time
  /\ spans[i].parent = pre.spans[i].parent

\* C12: in every reachable state at most one span is live per level, also
\* after a repeated onRunStart.
C12_AtMostOneOpenPerLevel ==
  \A key \in KeySet : Cardinality(OpenAtKey(key)) <= 1

\* C13: in every reachable state the levels with a live span are a prefix of
\* Run > Stage > Step > Execution: a live span below Run has a live span one
\* level up, also when starts arrive after onRunEnd.
C13_ContiguousPrefix ==
  \A i \in OpenIds :
    spans[i].key # "playbook" => OpenAtKey(Keys[Depth(spans[i].key) - 1]) # {}

\* C14: no span is created with an ended span as its parent, and no ended span
\* becomes live again.
C14_ClosedSpanNeverUsedAgain ==
  /\ \A i \in SpanIds : spans[i].parent_open
  /\ \A i \in OldIds : IsEnded(pre.spans[i]) => SameSpan(i)

\* C15: a span with a parent ends no later than its parent: no state has an
\* ended parent with a live child.
C15_ChildEndsBeforeParent ==
  \A i \in SpanIds :
    (spans[i].parent # 0 /\ IsEnded(spans[spans[i].parent])) =>
      /\ IsEnded(spans[i])
      /\ spans[i].end_time <= spans[spans[i].parent].end_time

C17_NothingOpenAfterRunEnd ==
  (IsLast("stats") /\ \E i \in 1..Len(hist) : hist[i].type = "run_start") =>
    OpenIds = {}

\* C19: an Execution span has status Error only if an onExecutionFailed for
\* its own target was processed after it was created.
C19_ErrorOnlyForOwnTarget ==
  \A i \in SpanIds :
    (spans[i].key = "runner" /\ spans[i].status = "ERROR") =>
      \E j \in spans[i].opened_by..Len(hist) :
        hist[j].type = "runner_failed" /\ hist[j].host = spans[i].host

\* C20: onExecutionStart and onExecutionFailed leave the Run, Stage and Step
\* entries of the table and their spans as they were; of the spans that
\* existed only the one in the Execution entry may differ.
C20_ExecutionHandlersFrame ==
  (hist # <<>> /\ Last.type \in {"runner_start", "runner_failed"}) =>
    /\ \A key \in {"playbook", "play", "task"} :
         /\ key \in DOMAIN active_spans <=> key \in DOMAIN pre.active_spans
         /\ key \in DOMAIN active_spans => active_spans[key] = pre.active_spans[key]
    /\ \A i \in OldIds :
         ("runner" \in DOMAIN pre.active_spans /\ i = pre.active_spans["runner"])
           \/ SameSpan(i)
    /\ \A i \in NewIds : spans[i].key = "runner" /\ active_spans["runner"] = i

\* A failure and a start of an execution, each with Run, Stage and Step live
\* before and after.
C20_Witness ==
  /\ IsLastTwo("runner_failed", "runner_start")
  /\ raised = "none"
  /\ OpenAt(pre, "playbook") /\ OpenAt(pre, "play") /\ OpenAt(pre, "task")
  /\ OpenAt(Now, "playbook") /\ OpenAt(Now, "play") /\ OpenAt(Now, "task")
  /\ "runner" \in DOMAIN pre.active_spans
  /\ pre.spans[pre.active_spans["runner"]].status = "ERROR"
  /\ OpenAt(Now, "runner")

====
